---- MODULE Spec2Model ----
(***************************************************************************)
(* A model of the batch video converter (src/vconverter.py): the scanner,  *)
(* the job selector, the conversion worker and the process pool that runs  *)
(* the workers, over an explicit file system.                              *)
(*                                                                         *)
(* A file name is the sequence pathlib splits it into: the stem followed   *)
(* by its dot-prefixed suffixes, <<"a", ".avi">> for a.avi.  A path is a   *)
(* pair <<directory, name>>; every directory is a child of the working     *)
(* directory ".", against which relative paths resolve.  Sizes returned by *)
(* get_size are kept in tenths of a megabyte (one decimal place).          *)
(***************************************************************************)
EXTENDS Integers, Sequences, FiniteSets, TLC

VARIABLES
    fs,          \* the files: path -> content, for the paths that name a file
    dirs,        \* the directories that exist
    order,       \* the order in which the OS lists the file names
    base_path,   \* args.start_path
    dest_path,   \* args.dest_path
    count,       \* args.count
    max_size,    \* args.max_size
    cpu_count,   \* mp.cpu_count()
    impl,        \* which worker runs: "src" (src/vconverter.py) or "src/src"
    pc,          \* position of the main process
    jobs,        \* the materialized output of files(): <<[from_, to_, force]>>
    tasks,       \* the pool's task queue: chunks of job indexes
    workers,     \* worker process -> [pc, chunk, pos]
    jstat,       \* per job bookkeeping (history of what the worker did)
    failed,      \* a job's exception has reached the pool's result
    log,         \* records written through the logger
    run,         \* which run of the program this is (1, 2, ...)
    snap,        \* what the previous run left: its files, directories, outcome
    report,      \* what validate printed: its tallies and the total count
    handlers,    \* the logger's handlers, in the order they were added
    last         \* the last call that set a handler level, and the handlers before it

args == <<order, base_path, dest_path, count, max_size, cpu_count, impl>>

hist == <<run, snap, report>>

logger == <<handlers, last>>

vars == <<fs, dirs, args, pc, jobs, tasks, workers, jstat, failed, log, hist,
          logger>>

----------------------------------------------------------------------------
(* Program constants                                                       *)

VIDEO == {".mp4", ".m4v", ".mkv", ".flv", ".webm", ".avi", ".wmv", ".mpg", ".mov"}

DEST_FOLDER == "result"

CONVERTED_VIDEOS_FOLDER == "processed"

LOG_FOLDER == "logs"

CWD == "."

MB == 1048576

\* the default of --max-size
DefaultMaxSize == 10

----------------------------------------------------------------------------
(* Bounds of the model                                                     *)

MaxFiles == 3

MaxCpu == 3


SmallBytes == 5 * MB

MidBytes == 8 * MB

BigBytes == 50 * MB

----------------------------------------------------------------------------
(* Names, paths and file contents                                          *)

A_MP4 == <<"a", ".mp4">>
A_AVI == <<"a", ".avi">>
B_AVI == <<"b", ".avi">>
B_MP4 == <<"b", ".mp4">>
B_MKV == <<"b", ".mkv">>
C_TXT == <<"c", ".txt">>

\* pathlib.PurePath.suffix: the last dot-prefixed component, "" when none
suffix(name) == IF Len(name) > 1 THEN name[Len(name)] ELSE ""

\* pathlib.PurePath.with_suffix: replace the last suffix, or append one
with_suffix(name, s) ==
    IF Len(name) > 1 THEN SubSeq(name, 1, Len(name) - 1) \o <<s>>
    ELSE name \o <<s>>

NoFile == [kind |-> "none", of |-> <<>>, bytes |-> 0]

\* the file that was at path p when the run started
Orig(p, b) == [kind |-> "orig", of |-> p, bytes |-> b]

\* a file left in the destination by something earlier than this run
Old(p) == [kind |-> "old", of |-> p, bytes |-> SmallBytes]

\* the output of the encoder for source content c: complete, or cut short
Encoded(c) == [kind |-> "enc", of |-> c.of, bytes |-> c.bytes]
Partial(c) == [kind |-> "partial", of |-> c.of, bytes |-> 0]

\* Path.exists()
exists(f, p) == p \in DOMAIN f

\* the content at a path, NoFile when nothing is there
At(f, p) == IF p \in DOMAIN f THEN f[p] ELSE NoFile

\* the file system with content c at path p (nothing there when c is NoFile)
Put(f, p, c) ==
    IF c = NoFile THEN [q \in DOMAIN f \ {p} |-> f[q]]
    ELSE [q \in DOMAIN f \cup {p} |-> IF q = p THEN c ELSE f[q]]

\* os.rename on POSIX: fails when the source is missing or the target's
\* directory is missing; silently replaces an existing target file
rename_fails(f, d, src, dst) == ~exists(f, src) \/ dst[1] \notin d
rename_copy(f, src, dst) ==
    IF src = dst THEN f ELSE Put(f, dst, f[src])

rename(f, src, dst) ==
    IF src = dst THEN f ELSE Put(Put(f, dst, f[src]), src, NoFile)

----------------------------------------------------------------------------
(* Classifier                                                              *)

is_video_AnySuffix(name) ==
    \E i \in 2..Len(name) : name[i] \in VIDEO

\* is_video, line 41: path.suffix in VIDEO
is_video(name) == suffix(name) \in VIDEO

\* round(bytes / 1024**2, 1) in tenths of a megabyte; Python rounds an exact
\* tie to the even neighbour
round1(bytes) ==
    LET x == bytes * 10
        q == x \div MB
        r == x % MB
    IN  IF 2 * r < MB THEN q
        ELSE IF 2 * r > MB THEN q + 1
        ELSE IF q % 2 = 0 THEN q ELSE q + 1

get_size_MissingIsOversized(f, p) ==
    IF ~exists(f, p) THEN round1(BigBytes) ELSE round1(At(f, p).bytes)

\* get_size(path), in tenths of a megabyte; the sentinel -1 is -10 tenths
get_size(f, p) == IF ~exists(f, p) THEN -10 ELSE round1(At(f, p).bytes)

\* a bare name produced by os.listdir resolves against the working directory
is_item_valid(f, name, maxsz) ==
    is_video(name) /\ get_size(f, <<CWD, name>>) <= maxsz * 10

----------------------------------------------------------------------------
(* Scanner and job selector                                                *)

DirOrder == <<"logs", "out", "processed", "result", "videos">>

\* os.listdir(d): the files of d in listing order, then d's subdirectories
listdir(f, ds, ord, d) ==
    SelectSeq(ord, LAMBDA n : exists(f, <<d, n>>))
    \o (IF d = CWD
        THEN [i \in 1..Len(SelectSeq(DirOrder, LAMBDA x : x \in ds)) |->
                 <<SelectSeq(DirOrder, LAMBDA x : x \in ds)[i]>>]
        ELSE <<>>)

RECURSIVE validate_loop_SkipsNonVideo(_, _, _)
validate_loop_SkipsNonVideo(f, items, maxsz) ==
    IF items = <<>> THEN <<>>
    ELSE (IF is_video(Head(items))
          THEN <<<<Head(items), is_item_valid(f, Head(items), maxsz)>>>>
          ELSE <<>>)
         \o validate_loop_SkipsNonVideo(f, Tail(items), maxsz)

\* validate_videos, lines 207-210: every listed entry that has a suffix is
\* yielded with its validity
RECURSIVE validate_loop(_, _, _)
validate_loop(f, items, maxsz) ==
    IF items = <<>> THEN <<>>
    ELSE (IF suffix(Head(items)) # ""
          THEN <<<<Head(items), is_item_valid(f, Head(items), maxsz)>>>>
          ELSE <<>>)
         \o validate_loop(f, Tail(items), maxsz)

validate_videos(f, ds, ord, base, maxsz) ==
    validate_loop(f, listdir(f, ds, ord, base), maxsz)

change_suffix_AppendsMp4(name) == name \o <<".mp4">>

change_suffix_to_mp4(name) == with_suffix(name, ".mp4")

RECURSIVE files_loop_OffByOne(_, _, _, _)
files_loop_OffByOne(items, dest, cnt, processed) ==
    IF items = <<>> THEN <<>>
    ELSE IF cnt # -1 /\ processed > cnt THEN <<>>
    ELSE IF Head(items)[2]
         THEN <<[from_ |-> <<CWD, Head(items)[1]>>,
                 to_   |-> <<dest, with_suffix(Head(items)[1], ".mp4")>>,
                 force |-> FALSE]>>
              \o files_loop_OffByOne(Tail(items), dest, cnt, processed + 1)
         ELSE files_loop_OffByOne(Tail(items), dest, cnt, processed)

RECURSIVE files_loop(_, _, _, _)
files_loop(items, dest, cnt, processed) ==
    IF items = <<>> THEN <<>>
    ELSE IF cnt # -1 /\ processed >= cnt THEN <<>>
    ELSE IF Head(items)[2]
         THEN <<[from_ |-> <<CWD, Head(items)[1]>>,
                 to_   |-> <<dest, change_suffix_to_mp4(Head(items)[1])>>,
                 force |-> FALSE]>>
              \o files_loop(Tail(items), dest, cnt, processed + 1)
         ELSE files_loop(Tail(items), dest, cnt, processed)

files(f, ds, ord, base, dest, cnt, maxsz) ==
    files_loop(validate_videos(f, ds, ord, base, maxsz), dest, cnt, 0)

----------------------------------------------------------------------------
(* The process pool of convert_all                                         *)

processes_count_AllCpus(cpus) == cpus

\* mp.cpu_count() - 1 or 1
processes_count(cpus) == IF cpus - 1 # 0 THEN cpus - 1 ELSE 1

\* Pool.starmap with chunksize=None: divmod(len, 4 * processes), rounded up
chunk_size(n, p) ==
    IF n = 0 THEN 0
    ELSE (n \div (4 * p)) + (IF n % (4 * p) # 0 THEN 1 ELSE 0)

\* the task queue: consecutive slices of the job indexes 1..n
chunks(n, size) ==
    IF n = 0 THEN <<>>
    ELSE [c \in 1..((n + size - 1) \div size) |->
             [i \in 1..(IF c * size <= n THEN size ELSE n - (c - 1) * size) |->
                 (c - 1) * size + i]]

NewJob == [state |-> "pending", runs |-> 0, enc |-> 0, encres |-> "none",
           err |-> "none", moved |-> "none", moves |-> 0]

Idle == [pc |-> "idle", chunk |-> <<>>, pos |-> 0]

\* the job a busy worker is running
JobOf(w) == workers[w].chunk[workers[w].pos]

Busy(w) == workers[w].pc \notin {"idle", "killed"}

LogRec(level, line, j) == [level |-> level, line |-> line, job |-> j]

\* convert_all up to the dispatch: both makedirs calls, the pool, and the
\* materialization of files() into the task list that starmap performs.
\* snap records the file system convert_all was called on, and whether the
\* count limit left a valid entry out.
ConvertAllStart ==
    /\ pc = "start"
    /\ LET ds == dirs \cup {DEST_FOLDER, CONVERTED_VIDEOS_FOLDER}
           js == files(fs, ds, order, base_path, dest_path, count, max_size)
           p  == processes_count(cpu_count)
       IN  /\ dirs' = ds
           /\ jobs' = js
           /\ jstat' = [j \in 1..Len(js) |-> NewJob]
           /\ tasks' = chunks(Len(js), chunk_size(Len(js), p))
           /\ workers' = [w \in 1..p |-> Idle]
           /\ snap' = IF run = 1
                      THEN [snap EXCEPT !.fs = fs, !.dirs = dirs, !.selected =
                               (Len(js) = Len(files(fs, ds, order, base_path,
                                                    dest_path, -1, max_size)))]
                      ELSE snap
    /\ pc' = "wait"
    /\ failed' = FALSE
    /\ UNCHANGED <<logger, fs, args, run, report, log>>

\* a free worker process takes the next chunk and starts its first job
TakeTask(w) ==
    /\ pc = "wait"
    /\ workers[w].pc = "idle"
    /\ tasks # <<>>
    /\ workers' = [workers EXCEPT ![w] =
                      [pc |-> "begin", chunk |-> Head(tasks), pos |-> 1]]
    /\ tasks' = Tail(tasks)
    /\ jstat' = [jstat EXCEPT ![Head(tasks)[1]].state = "converting",
                              ![Head(tasks)[1]].runs = @ + 1]
    /\ UNCHANGED <<logger, fs, dirs, args, hist, pc, jobs, failed, log>>

\* convert_file_to_mp4 returned: the worker goes on with its chunk
Returned(w, js) ==
    /\ IF workers[w].pos < Len(workers[w].chunk)
       THEN /\ workers' = [workers EXCEPT ![w].pc = "begin", ![w].pos = @ + 1]
            /\ jstat' = [js EXCEPT
                   ![workers[w].chunk[workers[w].pos + 1]].state = "converting",
                   ![workers[w].chunk[workers[w].pos + 1]].runs = @ + 1]
       ELSE /\ workers' = [workers EXCEPT ![w] = Idle]
            /\ jstat' = js
    /\ failed' = failed

\* convert_file_to_mp4 raised: the rest of the chunk is dropped (the list
\* built by starmapstar is abandoned) and the exception is the chunk's result
Raised(w, js) ==
    /\ workers' = [workers EXCEPT ![w] = Idle]
    /\ jstat' = js
    /\ failed' = TRUE

\* the worker goes on to its next step within the same job
Goto(w, step, js) ==
    /\ workers' = [workers EXCEPT ![w].pc = step]
    /\ jstat' = js
    /\ failed' = failed

----------------------------------------------------------------------------
(* The conversion worker: convert_file_to_mp4 and convert, one action per  *)
(* file-system access, so that the workers of the pool interleave          *)

Failure(js, j, st, exc) == [js EXCEPT ![j].state = st, ![j].err = exc]

ConvertRaises_ThenMoves(w, j, exc, js, lg) ==
    IF pc = "direct"
    THEN /\ Goto(w, "raised", Failure(js, j, "raised", exc))
         /\ log' = lg
    ELSE /\ Goto(w, "move", [js EXCEPT ![j].err = exc])
         /\ log' = lg \cup {LogRec("error", 169, j)}

ConvertRaises_Uncaught(w, j, exc, js, lg) ==
    IF pc = "direct"
    THEN /\ Goto(w, "raised", Failure(js, j, "raised", exc))
         /\ log' = lg
    ELSE /\ Raised(w, Failure(js, j, "raised", exc))
         /\ log' = lg

\* convert() raised exc: a worker catches it and logs it (lines 168-169; the
\* worker of src/src/vconverter.py catches it and passes, lines 183-184);
\* called directly, convert lets it reach its caller
ConvertRaises(w, j, exc, js, lg) ==
    IF pc = "direct"
    THEN /\ Goto(w, "raised", Failure(js, j, "raised", exc))
         /\ log' = lg
    ELSE /\ Returned(w, Failure(js, j, "done", exc))
         /\ log' = lg \cup (IF impl = "src" THEN {LogRec("error", 169, j)}
                            ELSE {})

ConvertOpen_IgnoresForce(w, j) ==
    IF ~exists(fs, jobs[j].from_)
    THEN ConvertRaises(w, j, "FileNotFoundError", jstat, log)
    ELSE IF exists(fs, jobs[j].to_)
    THEN ConvertRaises(w, j, "FileEvenExistsError", jstat, log)
    ELSE IF ~(is_video(jobs[j].from_[2]) /\ is_video(jobs[j].to_[2]))
    THEN ConvertRaises(w, j, "WrongExtensionError", jstat, log)
    ELSE \/ /\ Goto(w, "write", [jstat EXCEPT ![j].enc = @ + 1,
                                              ![j].encres = "running"])
            /\ log' = log \cup {LogRec("debug", 113, j)}
         \/ ConvertRaises(w, j, "EncoderError",
                          [jstat EXCEPT ![j].enc = @ + 1,
                                        ![j].encres = "failed"],
                          log \cup {LogRec("debug", 113, j),
                                    LogRec("error", 118, j)})

\* convert, lines 101-119: the three checks in the order the code makes
\* them, then the encoder opens the source (VideoFileClip), or raises.
\* These steps only read the file system, and only the answer of
\* to_.exists() can be changed by another worker, so they are one step.
ConvertOpen(w, j) ==
    IF ~exists(fs, jobs[j].from_)
    THEN ConvertRaises(w, j, "FileNotFoundError", jstat, log)
    ELSE IF exists(fs, jobs[j].to_) /\ ~jobs[j].force
    THEN ConvertRaises(w, j, "FileEvenExistsError", jstat, log)
    ELSE IF ~(is_video(jobs[j].from_[2]) /\ is_video(jobs[j].to_[2]))
    THEN ConvertRaises(w, j, "WrongExtensionError", jstat, log)
    ELSE \/ /\ Goto(w, "write", [jstat EXCEPT ![j].enc = @ + 1,
                                              ![j].encres = "running"])
            /\ log' = log \cup {LogRec("debug", 113, j)}
         \/ ConvertRaises(w, j, "EncoderError",
                          [jstat EXCEPT ![j].enc = @ + 1,
                                        ![j].encres = "failed"],
                          log \cup {LogRec("debug", 113, j),
                                    LogRec("error", 118, j)})

\* convert_file_to_mp4, lines 155-167: an .mp4 source is moved to the
\* destination as it is; any other source goes through convert
Begin(w) ==
    /\ pc = "wait"
    /\ workers[w].pc = "begin"
    /\ LET j    == JobOf(w)
           from == jobs[j].from_
           to   == jobs[j].to_
       IN  IF suffix(from[2]) = ".mp4"
           THEN IF rename_fails(fs, dirs, from, to)
                THEN /\ Raised(w, Failure(jstat, j, "raised", "OSError"))
                     /\ UNCHANGED <<logger, fs, log>>
                ELSE /\ fs' = rename(fs, from, to)
                     /\ log' = log \cup {LogRec("info", 157, j)}
                     /\ Returned(w, [jstat EXCEPT ![j].state = "done",
                                                  ![j].moved = "dest",
                                                  ![j].moves = @ + 1])
           ELSE IF suffix(to[2]) # ".mp4"
           THEN /\ log' = log \cup {LogRec("error", 161, j)}
                /\ Returned(w, Failure(jstat, j, "done", "BadDestination"))
                /\ UNCHANGED fs
           ELSE /\ ConvertOpen(w, j)
                /\ UNCHANGED fs
    /\ UNCHANGED <<logger, dirs, args, hist, pc, jobs, tasks>>

\* convert(from_, to_, force=...) called on its own, not through a worker
CallConvert(w) ==
    /\ pc = "direct"
    /\ workers[w].pc = "call"
    /\ ConvertOpen(w, JobOf(w))
    /\ UNCHANGED <<logger, fs, dirs, args, hist, pc, jobs, tasks>>

\* convert, lines 121-122: write_videofile creates the output file
WriteBegin(w) ==
    /\ pc \in {"wait", "direct"}
    /\ workers[w].pc = "write"
    /\ LET j == JobOf(w)
       IN  IF jobs[j].to_[1] \notin dirs
           THEN /\ ConvertRaises(w, j, "EncoderError",
                                 [jstat EXCEPT ![j].encres = "failed"],
                                 log \cup {LogRec("error", 124, j)})
                /\ fs' = fs
           ELSE /\ fs' = Put(fs, jobs[j].to_, Partial(At(fs, jobs[j].from_)))
                /\ Goto(w, "writing", jstat)
                /\ log' = log
    /\ UNCHANGED <<logger, dirs, args, hist, pc, jobs, tasks>>

\* convert, lines 122-128: write_videofile completes the output, or raises
\* and leaves behind whatever the encoder leaves: a cut-short file or none
WriteEnd(w) ==
    /\ pc \in {"wait", "direct"}
    /\ workers[w].pc = "writing"
    /\ LET j == JobOf(w)
       IN  \/ /\ fs' = Put(fs, jobs[j].to_, Encoded(At(fs, jobs[j].from_)))
              /\ log' = log \cup {LogRec("debug", 127, j)}
              /\ Goto(w, IF pc = "direct" THEN "returned" ELSE "move",
                      [jstat EXCEPT ![j].encres = "ok"])
           \/ /\ \E left \in {Partial(At(fs, jobs[j].from_)), NoFile} :
                     fs' = Put(fs, jobs[j].to_, left)
              /\ ConvertRaises(w, j, "EncoderError",
                               [jstat EXCEPT ![j].encres = "failed"],
                               log \cup {LogRec("error", 124, j)})
    /\ UNCHANGED <<logger, dirs, args, hist, pc, jobs, tasks>>

\* convert_file_to_mp4, lines 170-176: the source goes to the archive
Move(w) ==
    /\ pc = "wait"
    /\ workers[w].pc = "move"
    /\ LET j      == JobOf(w)
           from   == jobs[j].from_
           target == <<CONVERTED_VIDEOS_FOLDER, from[2]>>
       IN  IF rename_fails(fs, dirs, from, target)
           THEN /\ Raised(w, Failure(jstat, j, "raised", "OSError"))
                /\ UNCHANGED <<logger, fs, log>>
           ELSE /\ fs' = rename(fs, from, target)
                /\ log' = log \cup {LogRec("debug", 173, j)}
                /\ Returned(w, [jstat EXCEPT ![j].state = "done",
                                             ![j].moved = "archive",
                                             ![j].moves = @ + 1])
    /\ UNCHANGED <<logger, dirs, args, hist, pc, jobs, tasks>>

Return_NoWait ==
    /\ pc = "wait"
    /\ ~failed
    /\ pc' = "returned"
    /\ UNCHANGED <<logger, fs, dirs, args, hist, jobs, tasks, workers, jstat, failed, log>>

\* starmap returns once every chunk has reported success; leaving the with
\* block then ends the idle pool, and convert_all returns
Return ==
    /\ pc = "wait"
    /\ ~failed
    /\ tasks = <<>>
    /\ \A w \in DOMAIN workers : workers[w].pc = "idle"
    /\ pc' = "returned"
    /\ UNCHANGED <<logger, fs, dirs, args, hist, jobs, tasks, workers, jstat, failed, log>>

\* starmap re-raises the first exception a job raised, once every chunk has
\* reported (MapResult is ready only when no chunk is left); leaving the with
\* block then ends the idle pool, and convert_all raises
Terminate ==
    /\ pc = "wait"
    /\ failed
    /\ tasks = <<>>
    /\ \A w \in DOMAIN workers : workers[w].pc = "idle"
    /\ pc' = "raised"
    /\ workers' = [w \in DOMAIN workers |-> [workers[w] EXCEPT !.pc = "killed"]]
    /\ UNCHANGED <<logger, fs, dirs, args, hist, jobs, tasks, jstat, failed, log>>

----------------------------------------------------------------------------
(* The logger of src/src/logger.py: its handlers and their levels          *)

\* the most handlers a modelled logger is given
MaxHandlers == 2

\* the classes of logging a handler class derives from, itself included
Mro(type) ==
    IF type = "RotatingFileHandler"
    THEN {"RotatingFileHandler", "BaseRotatingHandler", "FileHandler",
          "StreamHandler", "Handler"}
    ELSE {"StreamHandler", "Handler"}

\* isinstance(handler, handler_type)
IsInstance(handler, handler_type) == handler_type \in Mro(handler.type)

\* the level names logging knows, and the spellings a caller passes
LevelNames == {"DEBUG", "INFO", "ERROR"}

LevelInputs == LevelNames \cup {"debug", "info", "error"}

\* str.upper on a level
upper(level) ==
    CASE level = "debug" -> "DEBUG"
      [] level = "info"  -> "INFO"
      [] level = "error" -> "ERROR"
      [] OTHER           -> level

NoHandler == [type |-> "none", level |-> "none"]

\* Logger._get_handler: the first handler that is an instance of the type;
\* NoHandler stands for HandlerNotFoundError
_get_handler(hs, handler_type) ==
    IF \E i \in DOMAIN hs : IsInstance(hs[i], handler_type)
    THEN hs[CHOOSE i \in DOMAIN hs :
                /\ IsInstance(hs[i], handler_type)
                /\ \A k \in 1..(i - 1) : ~IsInstance(hs[k], handler_type)]
    ELSE NoHandler

\* Logger.__contains__
contains(hs, handler_type) == _get_handler(hs, handler_type) # NoHandler

\* Logger.stream_handler and Logger.file_handler
stream_handler(hs) == _get_handler(hs, "StreamHandler")

file_handler(hs) == _get_handler(hs, "RotatingFileHandler")

\* Logger._set_handler_level on a type the logger holds: every handler that
\* is an instance of the type gets the level, upper-cased
_set_handler_level(hs, handler_type, level) ==
    [i \in DOMAIN hs |->
        IF IsInstance(hs[i], handler_type)
        THEN [hs[i] EXCEPT !.level = upper(level)]
        ELSE hs[i]]

NoCall == [op |-> "none", level |-> "none", before |-> <<>>, after |-> <<>>]

\* Logger.add_stream_handler: warns when a stream handler is held and adds
\* one all the same; Handler.setLevel raises on a name logging does not know
AddStreamHandler ==
    /\ pc = "logger"
    /\ Len(handlers) < MaxHandlers
    /\ \E level \in LevelInputs :
        /\ level \in LevelNames
        /\ handlers' = Append(handlers,
                              [type |-> "StreamHandler", level |-> level])
    /\ UNCHANGED <<fs, dirs, args, pc, jobs, tasks, workers, jstat, failed,
                   log, hist, last>>

\* Logger.add_file_handler: raises when a file handler is held
AddFileHandler ==
    /\ pc = "logger"
    /\ Len(handlers) < MaxHandlers
    /\ file_handler(handlers) = NoHandler
    /\ \E level \in LevelInputs :
        /\ level \in LevelNames
        /\ handlers' = Append(handlers,
                              [type |-> "RotatingFileHandler", level |-> level])
    /\ UNCHANGED <<fs, dirs, args, pc, jobs, tasks, workers, jstat, failed,
                   log, hist, last>>

\* Logger.set_stream_handler_level: the type is the class of the handler the
\* stream_handler property returns; the property raises when there is none
SetStreamHandlerLevel ==
    /\ pc = "logger"
    /\ stream_handler(handlers) # NoHandler
    /\ \E level \in LevelInputs :
        /\ handlers' = _set_handler_level(handlers,
                                          stream_handler(handlers).type, level)
        /\ last' = [op |-> "set_stream_handler_level", level |-> level,
                    before |-> handlers, after |-> handlers']
    /\ UNCHANGED <<fs, dirs, args, pc, jobs, tasks, workers, jstat, failed,
                   log, hist>>

\* Logger.set_file_handler_level
SetFileHandlerLevel ==
    /\ pc = "logger"
    /\ file_handler(handlers) # NoHandler
    /\ \E level \in LevelInputs :
        /\ handlers' = _set_handler_level(handlers,
                                          file_handler(handlers).type, level)
        /\ last' = [op |-> "set_file_handler_level", level |-> level,
                    before |-> handlers, after |-> handlers']
    /\ UNCHANGED <<fs, dirs, args, pc, jobs, tasks, workers, jstat, failed,
                   log, hist>>

\* the handlers the converter's module-level logger holds once imported: a
\* stream handler, then a file handler, both at DEBUG
ImportedHandlers ==
    <<[type |-> "StreamHandler", level |-> "DEBUG"],
      [type |-> "RotatingFileHandler", level |-> "DEBUG"]>>

----------------------------------------------------------------------------
(* Initial states: one run of convert_all over a bounded directory         *)

Range(s) == {s[i] : i \in DOMAIN s}

NoSnap == [fs |-> <<>>, dirs |-> {}, allok |-> FALSE, selected |-> FALSE]

NoReport == [valid |-> -1, invalid |-> -1, total |-> -1, lines |-> <<>>,
             footer |-> ""]

Dirs == {CWD, "videos", DEST_FOLDER, "out", CONVERTED_VIDEOS_FOLDER, LOG_FOLDER}

BatchNames == {A_MP4, A_AVI, B_AVI, B_MKV}

AllNames == BatchNames \cup {change_suffix_to_mp4(n) : n \in BatchNames} \cup {C_TXT}

Paths == Dirs \X AllNames

\* the listings of a directory: its file names in any order
Listings(names, maxlen) ==
    {s \in UNION {[1..n -> names] : n \in 0..maxlen} :
        \A i, k \in DOMAIN s : i # k => s[i] # s[k]}

Counts == {-1, 1, 2}

\* the file system before the run: the listed files are in base; when base is
\* not the working directory the working directory may hold files of the same
\* names; the destination may hold an earlier a.mp4; logs/ exists (logger)
InitFs(ord, big, base, copies, dest, pre) ==
    [p \in ({base} \cup (IF copies THEN {CWD} ELSE {})) \X Range(ord) |->
        Orig(p, IF p[2] \in big THEN BigBytes ELSE SmallBytes)]
    @@ [p \in {dest} \X pre |-> Old(p)]

\* the state in which main (at = "main") or convert_all (at = "start") is
\* entered, with the count drawn from cnts
InitWith(cnts, at) ==
    /\ order \in Listings(BatchNames, MaxFiles)
    /\ base_path \in {CWD, "videos"}
    /\ dest_path \in {DEST_FOLDER, "out"}
    /\ count \in cnts
    /\ max_size = DefaultMaxSize
    /\ cpu_count \in {1, MaxCpu}
    /\ impl = "src"
    /\ handlers = ImportedHandlers
    /\ last = NoCall
    /\ \E big \in {{}} \cup {{order[i]} : i \in DOMAIN order \cap {1}},
          copies \in BOOLEAN,
          destdir \in BOOLEAN,
          pre \in {{}, {A_MP4}} :
          /\ base_path = CWD => ~copies
          /\ pre # {} => destdir
          /\ fs = InitFs(order, big, base_path, copies, dest_path, pre)
          /\ dirs = {CWD, LOG_FOLDER, base_path}
                        \cup (IF destdir THEN {dest_path} ELSE {})
    /\ pc = at
    /\ jobs = <<>>
    /\ tasks = <<>>
    /\ workers = <<>>
    /\ jstat = <<>>
    /\ failed = FALSE
    /\ log = {}
    /\ run = 1
    /\ snap = [NoSnap EXCEPT !.fs = fs, !.dirs = dirs]
    /\ report = NoReport

Init == InitWith(Counts, "start")

Next ==
    \/ ConvertAllStart
    \/ \E w \in DOMAIN workers : TakeTask(w)
    \/ \E w \in DOMAIN workers : Begin(w)
    \/ \E w \in DOMAIN workers : WriteBegin(w)
    \/ \E w \in DOMAIN workers : WriteEnd(w)
    \/ \E w \in DOMAIN workers : Move(w)
    \/ Return
    \/ Terminate

Spec == Init /\ [][Next]_vars

----------------------------------------------------------------------------
(* The report builder                                                      *)

\* validate, lines 253-277: the tallies, one line per scanned entry with the
\* size get_size reports for it, the total count of the listing, the footer
validate(f, ds, ord, base, maxsz) ==
    LET items   == validate_videos(f, ds, ord, base, maxsz)
        valid   == Cardinality({i \in DOMAIN items : items[i][2]})
        invalid == Cardinality({i \in DOMAIN items : ~items[i][2]})
    IN  [valid   |-> valid,
         invalid |-> invalid,
         total   |-> Len(listdir(f, ds, ord, base)),
         lines   |-> [i \in DOMAIN items |->
                         [path  |-> items[i][1],
                          size  |-> get_size(f, <<CWD, items[i][1]>>),
                          valid |-> items[i][2]]],
         footer  |-> IF valid = 0 /\ invalid = 0 THEN "No video found"
                     ELSE IF invalid = 0 THEN "All videos are valid"
                     ELSE "Total valid, total invalid"]

Validate_MakesDirs ==
    /\ pc = "scan"
    /\ report' = validate(fs, dirs, order, base_path, max_size)
    /\ pc' = "validated"
    /\ dirs' = dirs \cup {DEST_FOLDER, CONVERTED_VIDEOS_FOLDER}
    /\ UNCHANGED <<logger, fs, args, jobs, tasks, workers, jstat, failed, log,
                   run, snap>>

\* main, lines 380-381: validate mode
Validate ==
    /\ pc = "scan"
    /\ report' = validate(fs, dirs, order, base_path, max_size)
    /\ pc' = "validated"
    /\ UNCHANGED <<logger, fs, dirs, args, jobs, tasks, workers, jstat, failed, log,
                   run, snap>>

\* files(base_path, dest_path, count, max_size), consumed to its end
SelectJobs ==
    /\ pc \in {"scan", "validated"}
    /\ jobs' = files(fs, dirs, order, base_path, dest_path, count, max_size)
    /\ pc' = "selected"
    /\ UNCHANGED <<logger, fs, dirs, args, tasks, workers, jstat, failed, log, hist>>

----------------------------------------------------------------------------
(* Initial states of a scan: a bounded directory and bounded arguments     *)

MaxCount == 2

D_NONE == <<"d">>

ScanNames == {A_MP4, A_AVI, B_AVI, C_TXT, D_NONE}

\* one byte above the default ceiling
JustOverBytes == DefaultMaxSize * MB + 1

ScanSizes == {SmallBytes, MidBytes, JustOverBytes, BigBytes}

\* the files of base with their sizes; when base is not the working
\* directory, the working directory holds no file of these names ("none"),
\* files of the same names and sizes ("same"), or big ones ("big"); when it
\* is, it may have a subdirectory videos/ holding b.mkv ("sub")
ScanFs(sz, base, copies) ==
    [p \in {base} \X DOMAIN sz |-> Orig(p, sz[p[2]])]
    @@ [p \in (IF copies \in {"same", "big"} THEN {CWD} \X DOMAIN sz ELSE {}) |->
           Orig(p, IF copies = "big" THEN BigBytes ELSE sz[p[2]])]
    @@ [p \in (IF copies = "sub" THEN {<<"videos", B_MKV>>} ELSE {}) |->
           Orig(p, SmallBytes)]

InitScan ==
    /\ order \in Listings(ScanNames, MaxFiles)
    /\ base_path \in {CWD, "videos"}
    /\ dest_path = DEST_FOLDER
    /\ count \in -1..MaxCount
    /\ max_size \in {0, DefaultMaxSize}
    /\ cpu_count = 1
    /\ impl = "src"
    /\ handlers = ImportedHandlers
    /\ last = NoCall
    /\ \E sz \in [Range(order) -> ScanSizes],
          copies \in {"none", "same", "big", "sub"} :
          /\ base_path = CWD => copies \in {"none", "sub"}
          /\ copies = "sub" => base_path = CWD
          /\ \A n \in Range(order) : ~is_video(n) => sz[n] = SmallBytes
          /\ fs = ScanFs(sz, base_path, copies)
          /\ dirs = {CWD, LOG_FOLDER, base_path}
                        \cup (IF copies = "sub" THEN {"videos"} ELSE {})
    /\ pc = "scan"
    /\ jobs = <<>>
    /\ tasks = <<>>
    /\ workers = <<>>
    /\ jstat = <<>>
    /\ failed = FALSE
    /\ log = {}
    /\ run = 1
    /\ snap = [NoSnap EXCEPT !.fs = fs, !.dirs = dirs]
    /\ report = NoReport

NextScan ==
    \/ Validate
    \/ SelectJobs

SpecScan == InitScan /\ [][NextScan]_vars

----------------------------------------------------------------------------
(* Vocabulary of the properties                                            *)

Jobs == DOMAIN jobs

\* convert_all has ended, by returning or by raising
Ended == pc \in {"returned", "raised"}

ArchivePath(j) == <<CONVERTED_VIDEOS_FOLDER, jobs[j].from_[2]>>

\* the file the job was given is still where the job was told to find it
SourceInPlace(j) ==
    /\ At(fs, jobs[j].from_).kind = "orig"
    /\ At(fs, jobs[j].from_).of = jobs[j].from_

\* the file the job was given is now in the archive directory, and only there
SourceInArchive(j) ==
    /\ At(fs, ArchivePath(j)).kind = "orig"
    /\ At(fs, ArchivePath(j)).of = jobs[j].from_
    /\ ~exists(fs, jobs[j].from_)

IsMp4Job(j) == suffix(jobs[j].from_[2]) = ".mp4"

\* job k's encoder raised and the encoder of every other job succeeded
OnlyEncoderFailure(k) ==
    /\ jstat[k].encres = "failed"
    /\ \A j \in Jobs \ {k} : jstat[j].encres = "ok"

----------------------------------------------------------------------------
(* Properties                                                              *)

\* C1: when convert_all has ended and exactly one job's encoder raised while
\* every other job's encoder succeeded, convert_all returned, every other job
\* is done with its source in the archive, and the failed job's source is
\* still in place and not in the archive.
C1_PartialFailureIsolation ==
    Ended =>
        \A k \in Jobs :
            OnlyEncoderFailure(k) =>
                /\ pc = "returned"
                /\ jstat[k].state = "done"
                /\ SourceInPlace(k)
                /\ ~exists(fs, ArchivePath(k))
                /\ \A j \in Jobs \ {k} :
                       /\ jstat[j].state = "done"
                       /\ SourceInArchive(j)

C1_Witness ==
    /\ pc = "returned"
    /\ Len(jobs) = 3
    /\ \E k \in Jobs : OnlyEncoderFailure(k) /\ jstat[k].err = "EncoderError"
    /\ \E w \in DOMAIN workers : w > 1

\* C2: no failure of a job crosses the job boundary: no job's exception ever
\* reaches the pool, and convert_all never raises.
C2_FailuresStayInTheJob ==
    /\ ~failed
    /\ pc # "raised"
    /\ \A j \in Jobs : jstat[j].state # "raised"

\* C3: a job whose encoder raised is never relocated: its source stays at its
\* original path and nothing of it is put into the archive.
C3_EncoderFailureLeavesSource ==
    \A j \in Jobs :
        jstat[j].encres = "failed" =>
            /\ SourceInPlace(j)
            /\ ~exists(fs, ArchivePath(j))
            /\ jstat[j].moved = "none"
            /\ jstat[j].moves = 0

C3_Witness ==
    \E j \in Jobs :
        /\ jstat[j].encres = "failed"
        /\ jstat[j].state = "done"
        /\ jstat[j].err = "EncoderError"
        /\ pc = "returned"

\* C4: a file is in the archive directory only if it is the source of a job
\* whose encoder has already completed successfully.
C4_EncodeThenMove ==
    \A p \in Paths :
        (p[1] = CONVERTED_VIDEOS_FOLDER /\ exists(fs, p)) =>
            \E j \in Jobs :
                /\ ArchivePath(j) = p
                /\ At(fs, p).of = jobs[j].from_
                /\ jstat[j].encres = "ok"
                /\ jstat[j].moved = "archive"

C4_Witness ==
    \E j \in Jobs :
        /\ SourceInArchive(j)
        /\ jstat[j].encres = "ok"
        /\ \E k \in Jobs : jstat[k].encres = "running"

C8_Mp4MovedToDestination ==
    \A j \in Jobs :
        (IsMp4Job(j) /\ jstat[j].state \in {"done", "raised"}) =>
            /\ jstat[j].enc = 0
            /\ At(fs, jobs[j].to_).kind = "orig"
            /\ At(fs, jobs[j].to_).of = jobs[j].from_
            /\ ~exists(fs, jobs[j].from_)
            /\ ~exists(fs, ArchivePath(j))

\* the entries of the scanned directory that the scanner reports valid
ValidEntries ==
    LET listing == listdir(fs, dirs, order, base_path)
    IN  {i \in DOMAIN listing :
            suffix(listing[i]) # "" /\ is_item_valid(fs, listing[i], max_size)}

Min(a, b) == IF a <= b THEN a ELSE b

\* C6: files() yields exactly min(count, number of valid entries) jobs for a
\* count >= 0, and one job for every valid entry for count = -1.
C6_JobCountBounding ==
    pc = "selected" =>
        Len(jobs) = IF count = -1 THEN Cardinality(ValidEntries)
                    ELSE Min(count, Cardinality(ValidEntries))

C6_Witness ==
    /\ pc = "selected"
    /\ count = 2
    /\ Cardinality(ValidEntries) = 3
    /\ Len(jobs) = 2

\* the scenario directory: exactly a.mp4 (5MB), b.avi (8MB) and c.txt are the
\* files of the scanned directory, and the ceiling is 10 MB
Scenario ==
    /\ Range(order) = {A_MP4, B_AVI, C_TXT}
    /\ dirs = {CWD, LOG_FOLDER, base_path}
    /\ At(fs, <<base_path, A_MP4>>).bytes = SmallBytes
    /\ At(fs, <<base_path, B_AVI>>).bytes = MidBytes
    /\ max_size = 10

\* where the scanner looks the names up (the working directory) the two
\* videos are absent or have the listed sizes
ResolvedAsListed ==
    \A n \in {A_MP4, B_AVI} :
        exists(fs, <<CWD, n>>) =>
            At(fs, <<CWD, n>>).bytes = At(fs, <<base_path, n>>).bytes

ReportLine(n) == {report.lines[i] : i \in {k \in DOMAIN report.lines :
                                               report.lines[k].path = n}}

\* C10 as claimed: in the scenario validate reports 2 valid and 0 invalid,
\* c.txt appears in neither tally, and the total files count is 3.
C10_AsClaimed ==
    (pc = "validated" /\ Scenario) =>
        /\ report.valid = 2
        /\ report.invalid = 0
        /\ ReportLine(C_TXT) = {}
        /\ report.total = 3

\* C10 amended: in the scenario validate reports a.mp4 and b.avi valid and
\* c.txt, which has the extension .txt, invalid: 2 valid, 1 invalid; the
\* total files count is the length of the listing, 3, or 4 when the scanned
\* directory is the working directory, which also holds logs/.
C10_ValidateScenario ==
    (pc = "validated" /\ Scenario /\ ResolvedAsListed) =>
        /\ report.valid = 2
        /\ report.invalid = 1
        /\ \A l \in ReportLine(A_MP4) \cup ReportLine(B_AVI) : l.valid
        /\ \A l \in ReportLine(C_TXT) : ~l.valid
        /\ Cardinality(ReportLine(C_TXT)) = 1
        /\ report.total = IF base_path = CWD THEN 4 ELSE 3
        /\ report.footer = "Total valid, total invalid"

C10_Witness ==
    /\ pc = "validated"
    /\ Scenario
    /\ ResolvedAsListed
    /\ base_path # CWD
    /\ report.invalid = 1
    /\ report.total = 3

----------------------------------------------------------------------------
(* convert() called on its own                                             *)

ConvertSources == {A_AVI, B_MKV, A_MP4, C_TXT, D_NONE}

ConvertTargets == {A_MP4, B_MP4, A_AVI, C_TXT, D_NONE}

InitConvert ==
    /\ \E fn \in ConvertSources, tn \in ConvertTargets,
          td \in {DEST_FOLDER, "out"},
          fe \in BOOLEAN, te \in BOOLEAN, force \in BOOLEAN :
          /\ jobs = <<[from_ |-> <<CWD, fn>>, to_ |-> <<td, tn>>,
                       force |-> force]>>
          /\ fs = [p \in (IF fe THEN {<<CWD, fn>>} ELSE {}) |->
                       Orig(p, SmallBytes)]
                  @@ [p \in (IF te THEN {<<td, tn>>} ELSE {}) |-> Old(p)]
          /\ dirs \in {{CWD, LOG_FOLDER, DEST_FOLDER},
                       {CWD, LOG_FOLDER, DEST_FOLDER, "out"}}
          /\ te => td \in dirs
    /\ order = <<>>
    /\ base_path = CWD
    /\ dest_path = DEST_FOLDER
    /\ count = -1
    /\ max_size = DefaultMaxSize
    /\ cpu_count = 1
    /\ impl = "src"
    /\ handlers = ImportedHandlers
    /\ last = NoCall
    /\ pc = "direct"
    /\ tasks = <<>>
    /\ workers = <<[pc |-> "call", chunk |-> <<1>>, pos |-> 1]>>
    /\ jstat = <<[NewJob EXCEPT !.state = "converting", !.runs = 1]>>
    /\ failed = FALSE
    /\ log = {}
    /\ run = 1
    /\ snap = [NoSnap EXCEPT !.fs = fs, !.dirs = dirs]
    /\ report = NoReport

NextConvert ==
    \/ CallConvert(1)
    \/ WriteBegin(1)
    \/ WriteEnd(1)

SpecConvert == InitConvert /\ [][NextConvert]_vars

Rejections == {"FileNotFoundError", "FileEvenExistsError", "WrongExtensionError"}

\* C9: convert(from_, to_, force) rejects, before any encoder invocation:
\* with FileNotFoundError when the source does not exist; with
\* FileEvenExistsError when the destination exists and force is false; with
\* WrongExtensionError when either path lacks a supported video extension
\* (the checks are made in this order, so the first that fails names the
\* error); a rejection creates, moves and modifies no file; an existing
\* destination with force set is not rejected by the existence check.
C9_ConvertRejects ==
    (pc = "direct" /\ workers[1].pc # "call") =>
        LET j   == jobs[1]
            s   == jstat[1]
            src == exists(snap.fs, j.from_)
            dst == exists(snap.fs, j.to_)
            ext == is_video(j.from_[2]) /\ is_video(j.to_[2])
        IN  /\ ~src => s.err = "FileNotFoundError"
            /\ (src /\ dst /\ ~j.force) => s.err = "FileEvenExistsError"
            /\ (src /\ (~dst \/ j.force) /\ ~ext) =>
                   s.err = "WrongExtensionError"
            /\ (~src \/ (dst /\ ~j.force) \/ ~ext) => s.err \in Rejections
            /\ s.err \in Rejections =>
                   /\ workers[1].pc = "raised"
                   /\ s.enc = 0
                   /\ s.encres = "none"
                   /\ fs = snap.fs
                   /\ dirs = snap.dirs
            /\ (dst /\ j.force) => s.err # "FileEvenExistsError"
            /\ (src /\ dst /\ j.force /\ ext) => s.enc = 1

C9_Witness ==
    /\ pc = "direct"
    /\ workers[1].pc = "raised"
    /\ jstat[1].err = "FileEvenExistsError"
    /\ exists(fs, jobs[1].to_)
    /\ ~jobs[1].force
    /\ fs = snap.fs

----------------------------------------------------------------------------
(* convert_all run a second time on the same directory                     *)

\* convert_all has returned and is called again with the same arguments
Rerun ==
    /\ pc = "returned"
    /\ run = 1
    /\ run' = 2
    /\ snap' = [fs |-> fs, dirs |-> dirs,
                allok |-> \A j \in DOMAIN jstat :
                              jstat[j].state = "done" /\ jstat[j].err = "none",
                selected |-> snap.selected]
    /\ pc' = "start"
    /\ jobs' = <<>>
    /\ tasks' = <<>>
    /\ workers' = <<>>
    /\ jstat' = <<>>
    /\ log' = {}
    /\ UNCHANGED <<logger, fs, dirs, args, failed, report>>

NextRerun ==
    \/ Next
    \/ Rerun

\* the runs over a directory of fewer than MaxFiles files, with no limit or
\* a limit of 1
InitRerun ==
    /\ Init
    /\ Len(order) < MaxFiles
    /\ count \in {-1, 1}

SpecRerun == InitRerun /\ [][NextRerun]_vars

SecondRunIdle ==
    /\ fs = snap.fs
    /\ dirs = snap.dirs
    /\ \A j \in DOMAIN jstat : jstat[j].enc = 0 /\ jstat[j].moves = 0

\* C7 as claimed: after a first run of convert_all in which every job
\* succeeded, a second run on the same directory changes nothing: no encoder
\* invocation, no file created, moved or overwritten.
C7_AsClaimed ==
    (run = 2 /\ snap.allok) => SecondRunIdle

\* C7 amended: after a first run of convert_all in which every job succeeded
\* and the count limit left no valid entry unselected, a second run on the
\* same directory changes nothing: no encoder invocation, no file created,
\* moved or overwritten, no directory created.
C7_Idempotence ==
    (run = 2 /\ snap.allok /\ snap.selected) => SecondRunIdle

C7_Witness ==
    /\ run = 2
    /\ snap.allok
    /\ snap.selected
    /\ pc \in {"returned", "raised"}
    /\ \E p \in DOMAIN fs : p[1] = CONVERTED_VIDEOS_FOLDER
    /\ \E p \in DOMAIN fs : p[1] = dest_path /\ fs[p].kind = "enc"

----------------------------------------------------------------------------
(* Convert scenario: count = 1 over a directory holding a.mp4 and b.avi    *)

\* the working directory is scanned, it lists a.mp4 and b.avi, both below
\* the ceiling, and the limit is 1
TwoValidFiles ==
    /\ base_path = CWD
    /\ Range(order) = {A_MP4, B_AVI}
    /\ count = 1
    /\ \A i \in DOMAIN order : is_item_valid(snap.fs, order[i], max_size)

\* the file that was listed under name n is still there, as it was
Untouched(n) ==
    /\ At(fs, <<CWD, n>>).kind = "orig"
    /\ At(fs, <<CWD, n>>).of = <<CWD, n>>
    /\ \A p \in DOMAIN fs : fs[p].of = <<CWD, n>> => p = <<CWD, n>>

----------------------------------------------------------------------------
(* convert_all: directories, waiting, disjointness                          *)

\* C12: once convert_all has dispatched its jobs, the destination directory
\* it was given (dest_path) and the archive directory both exist.
C12_DirectoriesEnsured ==
    pc \in {"wait", "returned", "raised"} =>
        /\ dest_path \in dirs
        /\ CONVERTED_VIDEOS_FOLDER \in dirs

\* C13: in the state where convert_all returns, every job it dispatched has
\* finished: none is pending or converting, no task is left in the queue and
\* no worker is busy.
C13_ReturnsAfterAllJobs ==
    pc = "returned" =>
        /\ \A j \in Jobs : jstat[j].state = "done" /\ jstat[j].runs = 1
        /\ tasks = <<>>
        /\ \A w \in DOMAIN workers : ~Busy(w)

C13_Witness ==
    /\ pc = "returned"
    /\ Len(jobs) = 3
    /\ Len(workers) = 2
    /\ \E j \in Jobs : jstat[j].encres = "ok"
    /\ \E j \in Jobs : jstat[j].err # "none"

\* C14: any two distinct jobs of one batch have different source paths and
\* different destination paths, and no two workers are writing the same
\* destination file.
C14_JobsDisjoint ==
    /\ \A i, k \in Jobs :
           i # k => /\ jobs[i].from_ # jobs[k].from_
                    /\ jobs[i].to_ # jobs[k].to_
    /\ \A v, w \in DOMAIN workers :
           (v # w /\ workers[v].pc = "writing" /\ workers[w].pc = "writing") =>
               jobs[JobOf(v)].to_ # jobs[JobOf(w)].to_

----------------------------------------------------------------------------
(* The scan: read-only report, size ceiling, sentinel                      *)

\* C15: validate(base_path, max_size) leaves the files and the directories
\* as they were when it was called: nothing is created, moved, renamed or
\* deleted in the source, destination or archive locations.
C15_ValidateReadOnly ==
    pc = "validated" =>
        /\ fs = snap.fs
        /\ dirs = snap.dirs

C15_Witness ==
    /\ pc = "validated"
    /\ report.valid >= 1
    /\ report.invalid >= 1
    /\ fs = snap.fs
    /\ fs # <<>>

\* C16: a file of more than max_size * 1,048,576 bytes is regarded as
\* invalid by the scanner and is never selected as a job (stated for the
\* scan of the working directory, where the listed file is the file sized).
C16_SizeCeiling ==
    base_path = CWD =>
        /\ pc = "validated" =>
               \A i \in DOMAIN report.lines :
                   At(fs, <<CWD, report.lines[i].path>>).bytes > max_size * MB
                       => ~report.lines[i].valid
        /\ pc = "selected" =>
               \A j \in Jobs : At(fs, jobs[j].from_).bytes <= max_size * MB

\* C17: get_size gives the sentinel -1 for a path that does not exist, and
\* the scanner reports such a path valid when it has a supported video
\* extension, for every max_size >= 0; files() selects it like any valid
\* entry.
C17_MissingFileIsValid ==
    /\ pc = "validated" =>
           \A i \in DOMAIN report.lines :
               ~exists(fs, <<CWD, report.lines[i].path>>) =>
                   /\ report.lines[i].size = -10
                   /\ report.lines[i].valid = is_video(report.lines[i].path)
    /\ (pc = "selected" /\ count = -1) =>
           \A i \in DOMAIN order :
               (is_video(order[i]) /\ ~exists(fs, <<CWD, order[i]>>)) =>
                   \E j \in Jobs : jobs[j].from_ = <<CWD, order[i]>>

C17_Witness ==
    /\ pc = "validated"
    /\ max_size = 0
    /\ \E i \in DOMAIN report.lines :
           /\ ~exists(fs, <<CWD, report.lines[i].path>>)
           /\ report.lines[i].size = -10
           /\ report.lines[i].valid

----------------------------------------------------------------------------
(* main: validate mode, then convert mode unless the count is 0            *)

MainConvert_Always ==
    /\ pc \in {"main", "validated"}
    /\ pc' = "start"
    /\ UNCHANGED <<logger, fs, dirs, args, hist, jobs, tasks, workers, jstat, failed,
                   log>>

\* main, lines 382-386: "if count := args.count" calls convert_all unless
\* the count is 0
MainConvert ==
    /\ pc \in {"main", "validated"}
    /\ pc' = IF count # 0 THEN "start" ELSE "exit"
    /\ UNCHANGED <<logger, fs, dirs, args, hist, jobs, tasks, workers, jstat, failed,
                   log>>

\* main, lines 380-381, with --validate
MainValidate ==
    /\ pc = "main"
    /\ report' = validate(fs, dirs, order, base_path, max_size)
    /\ pc' = "validated"
    /\ UNCHANGED <<logger, fs, dirs, args, jobs, tasks, workers, jstat, failed, log,
                   run, snap>>

\* files(base_path, dest_path, count, max_size) called on its own
CallFiles ==
    /\ pc = "main"
    /\ jobs' = files(fs, dirs, order, base_path, dest_path, count, max_size)
    /\ pc' = "selected"
    /\ UNCHANGED <<logger, fs, dirs, args, tasks, workers, jstat, failed, log, hist>>

\* the runs of main over a directory of fewer than MaxFiles files
InitMain ==
    /\ InitWith({0, -1, 1}, "main")
    /\ Len(order) < MaxFiles

NextMain ==
    \/ MainValidate
    \/ MainConvert
    \/ CallFiles
    \/ Next

SpecMain == InitMain /\ [][NextMain]_vars

\* C18: with count 0 convert mode does nothing: convert_all is not entered,
\* no directory is created, no job is selected or dispatched, no encoder is
\* invoked and no file is moved; and files(base, dest, 0, max_size) yields no
\* job.
C18_CountZeroNoOp ==
    count = 0 =>
        /\ pc \in {"main", "validated", "selected", "exit"}
        /\ fs = snap.fs
        /\ dirs = snap.dirs
        /\ jobs = <<>>
        /\ tasks = <<>>
        /\ workers = <<>>
        /\ jstat = <<>>
        /\ log = {}

C18_Witness ==
    /\ count = 0
    /\ pc = "exit"
    /\ ValidEntries # {}
    /\ DEST_FOLDER \notin dirs
    /\ CONVERTED_VIDEOS_FOLDER \notin dirs
    /\ report.valid >= 1

----------------------------------------------------------------------------
(* is_video called on its own                                              *)

Stems == {"a", ".mp4"}

Suffixes == VIDEO \cup {".txt", ".MP4", ".Avi", ".mp"}

\* names with no, one or two suffixes
ClassifyNames ==
    {<<s>> : s \in Stems}
    \cup {<<s, x>> : s \in Stems, x \in Suffixes}
    \cup {<<s, x, y>> : s \in Stems, x \in Suffixes, y \in Suffixes}

\* is_video(path); the answer is kept in report.valid (1 for True)
CallIsVideo ==
    /\ pc = "classify"
    /\ report' = [NoReport EXCEPT !.valid = IF is_video(order[1]) THEN 1 ELSE 0]
    /\ pc' = "classified"
    /\ UNCHANGED <<logger, fs, dirs, args, jobs, tasks, workers, jstat, failed, log,
                   run, snap>>

\* a path that does not exist, or is a file with any content
InitClassify ==
    /\ \E n \in ClassifyNames : order = <<n>>
    /\ base_path = CWD
    /\ dest_path = DEST_FOLDER
    /\ count = -1
    /\ max_size = DefaultMaxSize
    /\ cpu_count = 1
    /\ impl = "src"
    /\ handlers = ImportedHandlers
    /\ last = NoCall
    /\ fs \in {<<>>}
           \cup {[p \in {<<CWD, order[1]>>} |-> c] :
                    c \in {Orig(<<CWD, order[1]>>, SmallBytes),
                           Orig(<<CWD, order[1]>>, BigBytes),
                           Partial(Orig(<<CWD, order[1]>>, SmallBytes))}}
    /\ dirs = {CWD, LOG_FOLDER}
    /\ pc = "classify"
    /\ jobs = <<>>
    /\ tasks = <<>>
    /\ workers = <<>>
    /\ jstat = <<>>
    /\ failed = FALSE
    /\ log = {}
    /\ run = 1
    /\ snap = [NoSnap EXCEPT !.fs = fs, !.dirs = dirs]
    /\ report = NoReport

NextClassify == CallIsVideo

SpecClassify == InitClassify /\ [][NextClassify]_vars

\* the extension of a name: its last suffix with the leading dot, none for a
\* name that has no suffix
Extension(name) == IF Len(name) >= 2 THEN name[Len(name)] ELSE "none"

\* C19: is_video(p) is true exactly when the extension of p, compared
\* case-sensitively, is one of .mp4 .m4v .mkv .flv .webm .avi .wmv .mpg .mov,
\* whether or not the file exists and whatever it holds.
C19_IsVideoByExtension ==
    pc = "classified" =>
        /\ report.valid \in {0, 1}
        /\ report.valid = 1 <=>
               Extension(order[1]) \in {".mp4", ".m4v", ".mkv", ".flv", ".webm",
                                        ".avi", ".wmv", ".mpg", ".mov"}
        /\ fs = snap.fs

C19_Witness ==
    /\ pc = "classified"
    /\ order[1] = <<"a", ".mp4", ".txt">>
    /\ report.valid = 0
    /\ fs # <<>>

----------------------------------------------------------------------------
(* convert_all with one process over five files: chunks of two jobs        *)

ChunkNames == {A_MP4, A_AVI, B_AVI, B_MKV, B_MP4}

\* the working directory lists the five files, all below the ceiling; one
\* worker process, so that starmap cuts the five jobs into chunks of two
InitChunks ==
    /\ order \in {s \in Listings(ChunkNames, Cardinality(ChunkNames)) :
                     Len(s) = Cardinality(ChunkNames)}
    /\ base_path = CWD
    /\ dest_path \in {DEST_FOLDER, "out"}
    /\ count = -1
    /\ max_size = DefaultMaxSize
    /\ cpu_count \in {1, 2}
    /\ impl = "src"
    /\ handlers = ImportedHandlers
    /\ last = NoCall
    /\ fs = InitFs(order, {}, base_path, FALSE, dest_path, {})
    /\ dirs \in {{CWD, LOG_FOLDER}, {CWD, LOG_FOLDER, dest_path}}
    /\ pc = "start"
    /\ jobs = <<>>
    /\ tasks = <<>>
    /\ workers = <<>>
    /\ jstat = <<>>
    /\ failed = FALSE
    /\ log = {}
    /\ run = 1
    /\ snap = [NoSnap EXCEPT !.fs = fs, !.dirs = dirs]
    /\ report = NoReport

SpecChunks == InitChunks /\ [][Next]_vars

\* C20: every job of the batch is executed by a worker exactly once: never
\* twice, and, once convert_all has ended, never not at all, whatever
\* happened to the other jobs; and the encoder is invoked at most once for a
\* job.
C20_ExactlyOnce ==
    /\ \A j \in Jobs : jstat[j].runs <= 1 /\ jstat[j].enc <= 1
    /\ \A v, w \in DOMAIN workers :
           (v # w /\ Busy(v) /\ Busy(w)) => JobOf(v) # JobOf(w)
    /\ Ended => \A j \in Jobs : jstat[j].runs = 1

----------------------------------------------------------------------------
(* The pool and the log                                                    *)

Max(a, b) == IF a >= b THEN a ELSE b

Converting == {j \in Jobs : jstat[j].state = "converting"}

\* C21: the pool of convert_all has max(cpu_count - 1, 1) processes, for
\* every cpu_count >= 1, and at no time are more jobs in the converting
\* state than the pool has processes.
C21_PoolSize ==
    /\ \A c \in 1..(MaxCpu + 1) : processes_count(c) = Max(c - 1, 1)
    /\ pc \in {"wait", "returned", "raised"} =>
           /\ Len(workers) = Max(cpu_count - 1, 1)
           /\ Cardinality(Converting) <= Len(workers)
           /\ Cardinality({w \in DOMAIN workers : Busy(w)}) = Cardinality(Converting)

C21_Witness ==
    /\ pc = "wait"
    /\ cpu_count = MaxCpu
    /\ Len(jobs) = 3
    /\ tasks # <<>>
    /\ Cardinality(Converting) = MaxCpu - 1

\* both workers over the working directory: names whose classification is
\* the same by suffix (src) and by MIME type (src/src); the destination may
\* hold an earlier a.mp4, and the listed files may be missing where the worker
\* looks for them (base_path is not the working directory)
InitVariant ==
    /\ order \in Listings({A_MP4, A_AVI, B_AVI}, MaxFiles - 1)
    /\ base_path \in {CWD, "videos"}
    /\ dest_path = DEST_FOLDER
    /\ count = -1
    /\ max_size = DefaultMaxSize
    /\ cpu_count \in {1, MaxCpu}
    /\ impl \in {"src", "src/src"}
    /\ handlers = ImportedHandlers
    /\ last = NoCall
    /\ \E pre \in {{}, {A_MP4}} :
          /\ fs = InitFs(order, {}, base_path, FALSE, dest_path, pre)
          /\ dirs = {CWD, LOG_FOLDER, base_path}
                        \cup (IF pre # {} THEN {dest_path} ELSE {})
    /\ pc = "start"
    /\ jobs = <<>>
    /\ tasks = <<>>
    /\ workers = <<>>
    /\ jstat = <<>>
    /\ failed = FALSE
    /\ log = {}
    /\ run = 1
    /\ snap = [NoSnap EXCEPT !.fs = fs, !.dirs = dirs]
    /\ report = NoReport

SpecVariant == InitVariant /\ [][Next]_vars

\* C22: a job that failed a precondition check of convert (source missing,
\* destination exists, unsupported extension) has an error record in the
\* log once its worker has returned, in both worker implementations.
C22_RejectionsAreLogged ==
    \A j \in Jobs :
        (jstat[j].state = "done" /\ jstat[j].err \in Rejections) =>
            \E r \in log : r.level = "error" /\ r.job = j

\* the same for the worker of src/vconverter.py alone
C22_SrcWorkerLogs ==
    impl = "src" => C22_RejectionsAreLogged

----------------------------------------------------------------------------
(* What the scanner yields and what the selector emits                     *)

\* the names of the files that are immediate children of the scanned
\* directory and have an extension, in listing order
ChildrenWithExtension ==
    SelectSeq(order, LAMBDA n : exists(fs, <<base_path, n>>) /\ Len(n) >= 2)

\* C23: validate_videos yields one pair for every immediate child of the
\* scanned directory whose name has an extension, in listing order; nothing
\* for an extensionless entry, a directory or a file of a subdirectory; and
\* a child that is not a video is yielded with isValid false.
C23_ScannerYield ==
    pc = "validated" =>
        /\ [i \in DOMAIN report.lines |-> report.lines[i].path]
               = ChildrenWithExtension
        /\ \A i \in DOMAIN report.lines :
               /\ Len(report.lines[i].path) >= 2
               /\ exists(fs, <<base_path, report.lines[i].path>>)
               /\ ~is_video(report.lines[i].path) => ~report.lines[i].valid
        /\ report.valid + report.invalid = Len(ChildrenWithExtension)

C23_Witness ==
    /\ pc = "validated"
    /\ base_path = CWD
    /\ exists(fs, <<"videos", B_MKV>>)
    /\ order = <<D_NONE, C_TXT, A_AVI>>
    /\ Len(report.lines) = 2
    /\ ~report.lines[1].valid
    /\ report.lines[2].valid
    /\ report.total = 5

\* the entries the scanner reports valid, in listing order
ValidInOrder ==
    SelectSeq(ChildrenWithExtension,
              LAMBDA n : is_item_valid(fs, n, max_size))

\* the file name with its last extension replaced by .mp4
Mp4Name(n) == [i \in DOMAIN n |-> IF i = Len(n) THEN ".mp4" ELSE n[i]]

\* C24: the jobs files() emits are, in order, the first min(count, number of
\* valid entries) valid entries of the listing, all of them for count = -1,
\* and the destination of each is dest_path joined with the source file name
\* whose last extension is replaced by .mp4.
C24_JobsArePrefix ==
    pc = "selected" =>
        LET k == IF count = -1 THEN Len(ValidInOrder)
                 ELSE Min(count, Len(ValidInOrder))
        IN  /\ Len(jobs) = k
            /\ \A i \in 1..k :
                   /\ jobs[i].from_[2] = ValidInOrder[i]
                   /\ jobs[i].to_ = <<dest_path, Mp4Name(ValidInOrder[i])>>

C24_Witness ==
    /\ pc = "selected"
    /\ count = 2
    /\ Len(order) = 3
    /\ Len(ValidInOrder) = 2
    /\ ValidInOrder = <<order[1], order[3]>>
    /\ Len(jobs) = 2
    /\ jobs[2].to_ = <<DEST_FOLDER, B_MP4>>

\* C25: the validity flag of an entry is about the file inside the scanned
\* directory: an entry reported valid has a supported extension and, in the
\* scanned directory, a size not above the ceiling as get_size measures it;
\* and the job built from an entry names a source path at which the listed
\* file exists.
C25_FlagIsAboutListedFile ==
    /\ pc = "validated" =>
           \A i \in DOMAIN report.lines :
               report.lines[i].valid =>
                   /\ is_video(report.lines[i].path)
                   /\ get_size(fs, <<base_path, report.lines[i].path>>)
                          <= max_size * 10
    /\ pc = "selected" =>
           \A j \in Jobs :
               /\ exists(fs, jobs[j].from_)
               /\ At(fs, jobs[j].from_).of = <<base_path, jobs[j].from_[2]>>

----------------------------------------------------------------------------
(* Overwriting and loss                                                    *)

\* C26: the worker never overwrites an existing destination file: a file
\* that was at a destination path before the batch is still there unchanged,
\* and the source of the job that found it there is still in place.
C26_NoOverwrite ==
    \A j \in Jobs :
        (exists(snap.fs, jobs[j].to_) /\ jstat[j].state \in {"done", "raised"}) =>
            /\ At(fs, jobs[j].to_) = At(snap.fs, jobs[j].to_)
            /\ At(fs, jobs[j].from_) = At(snap.fs, jobs[j].from_)

\* the paths that hold the file that was at path p when the batch started
CopiesOf(p) == {q \in DOMAIN fs : fs[q].kind = "orig" /\ fs[q].of = p}

\* C27: every file that was in the source directory when the batch started
\* exists in exactly one place: the source directory, the archive directory,
\* or, for an .mp4 source only, the destination directory.
C27_NoOriginalLost ==
    pc \in {"wait", "returned", "raised"} =>
        \A p \in DOMAIN snap.fs :
            p[1] = base_path =>
                /\ Cardinality(CopiesOf(p)) = 1
                /\ \A q \in CopiesOf(p) :
                       \/ q = p
                       \/ q = <<CONVERTED_VIDEOS_FOLDER, p[2]>>
                       \/ q = <<dest_path, p[2]>> /\ suffix(p[2]) = ".mp4"

----------------------------------------------------------------------------
(* The logger on its own: handlers are added, then their levels are set    *)

\* a logger after construction: no handler yet, nothing else running
InitLogger ==
    /\ fs = [p \in {} |-> NoFile]
    /\ dirs = {CWD, LOG_FOLDER}
    /\ order = <<>>
    /\ base_path = CWD
    /\ dest_path = DEST_FOLDER
    /\ count = -1
    /\ max_size = DefaultMaxSize
    /\ cpu_count = 1
    /\ impl = "src/src"
    /\ pc = "logger"
    /\ jobs = <<>>
    /\ tasks = <<>>
    /\ workers = <<>>
    /\ jstat = <<>>
    /\ failed = FALSE
    /\ log = {}
    /\ run = 1
    /\ snap = NoSnap
    /\ report = NoReport
    /\ handlers = <<>>
    /\ last = NoCall

NextLogger ==
    \/ AddStreamHandler
    \/ AddFileHandler
    \/ SetStreamHandlerLevel
    \/ SetFileHandlerLevel

SpecLogger == InitLogger /\ [][NextLogger]_vars

\* the positions of the plain stream handlers and of the rotating file
\* handlers among the handlers
StreamAt(hs) == {i \in DOMAIN hs : hs[i].type = "StreamHandler"}

FileAt(hs) == {i \in DOMAIN hs : hs[i].type = "RotatingFileHandler"}

OneOfEach(hs) == Cardinality(StreamAt(hs)) = 1 /\ Cardinality(FileAt(hs)) = 1

\* the call set exactly the handlers at the positions in set to the level
\* and left every other handler's level as it was
SetOnly(call, set) ==
    \A i \in DOMAIN call.before :
        call.after[i].level =
            IF i \in set THEN upper(call.level) ELSE call.before[i].level

\* C28: on a logger holding one stream handler and one rotating file
\* handler, in either order, set_stream_handler_level sets the level of the
\* stream handler only and set_file_handler_level sets the level of the file
\* handler only.
C28_SettersAreSeparate ==
    OneOfEach(last.before) =>
        /\ last.op = "set_stream_handler_level"
            => SetOnly(last, StreamAt(last.before))
        /\ last.op = "set_file_handler_level"
            => SetOnly(last, FileAt(last.before))

\* the half of C28 about set_file_handler_level holds in either order
C28_FileSetterIsSeparate ==
    (OneOfEach(last.before) /\ last.op = "set_file_handler_level")
        => SetOnly(last, FileAt(last.before))

====
